---- MODULE Spec2Model ----
(***************************************************************************)
(* Model of the asset-level dashboard (src/app.py).                        *)
(*                                                                         *)
(* The script is re-executed from top to bottom on every user event.  A    *)
(* pass is modelled as a chain of steps (pc) in source order; user events  *)
(* are taken only between passes (single-threaded, single session).        *)
(*                                                                         *)
(* Framework behaviour the script relies on (Streamlit):                   *)
(*   - st.rerun() ends the pass and starts a new one; button/chat triggers *)
(*     are reset and the state of widgets not rendered in the ended pass   *)
(*     is dropped;                                                         *)
(*   - a widget without key is identified by its label and parameters, so  *)
(*     a number_input whose `value` differs is a new widget;               *)
(*   - an uncaught exception ends the pass where it is raised.             *)
(* Numbers are exact rationals (no floating-point rounding).               *)
(***************************************************************************)
EXTENDS Integers, Sequences, FiniteSets, TLC

VARIABLES
    \* ---- session pass ----
    pc,                     \* position of the script pass
    ss_keys,                \* keys present in st.session_state
    scroll_to_section,      \* st.session_state.scroll_to_section
    last_selected_property, \* st.session_state.last_selected_property
    inputs,                 \* st.session_state.inputs (dict as set of pairs)
    messages,               \* st.session_state.messages
    w_select,               \* selectbox widget state
    w_num,                  \* number_input widget states, per field
    trigger,                \* button / chat_input trigger of this pass
    cur,                    \* the nine local input values of the pass
    output_df,              \* the Output Record rendered by the pass
    shown,                  \* transcript rendered by the display loop
    \* ---- history (observation only) ----
    lastEvent, passes, nEvents, posts, outcome, reply, pre_messages, pre_cur,
    asked,
    \* ---- text cleanup harness ----
    text, c_stage, c_out, iso_rule, iso_n, iso_once, iso_twice

vars == <<pc, ss_keys, scroll_to_section, last_selected_property, inputs,
          messages, w_select, w_num, trigger, cur, output_df, shown,
          lastEvent, passes, nEvents, posts, outcome, reply, pre_messages,
          pre_cur, asked, text, c_stage, c_out, iso_rule, iso_n, iso_once,
          iso_twice>>

sessionVars == <<pc, ss_keys, scroll_to_section, last_selected_property,
                 inputs, messages, w_select, w_num, trigger, cur, output_df,
                 shown, lastEvent, passes, nEvents, posts, outcome, reply,
                 pre_messages, pre_cur, asked>>

cleanVars == <<text, c_stage, c_out, iso_rule, iso_n, iso_once, iso_twice>>

(***************************************************************************)
(* Bounds                                                                  *)
(***************************************************************************)
MaxEvents == 3      \* user events per behaviour
MaxEditVal == 1     \* edited values are 0..MaxEditVal
MaxCalcVal == 1     \* calculation inputs are -1..MaxCalcVal
MaxLen == 3         \* length of enumerated cleanup inputs

(***************************************************************************)
(* Text cleanup (clean_response_text)                                      *)
(***************************************************************************)
Punct == {".", ",", "!", "?"}
Period == {"."}
Paren == {"(", ")"}
Digit == {"0", "1", "2", "3", "4", "5", "6", "7", "8", "9"}
Lower == {"a", "b", "c", "d", "e", "f", "g", "h", "i", "j", "k", "l", "m",
          "n", "o", "p", "q", "r", "s", "t", "u", "v", "w", "x", "y", "z"}
Upper == {"A", "B", "C", "D", "E", "F", "G", "H", "I", "J", "K", "L", "M",
          "N", "O", "P", "Q", "R", "S", "T", "U", "V", "W", "X", "Y", "Z"}
Word == Digit \cup Lower \cup Upper \cup {"_"}
NonSpace == Punct \cup Paren \cup Word

\* re.sub(r"(C1)(C2)", r"\1 \2", s): leftmost, non-overlapping matches of a
\* character of class C1 followed by one of class C2, scanned from index i.
RECURSIVE SubPairFrom(_, _, _, _)
SubPairFrom(C1, C2, s, i) ==
    IF i > Len(s) THEN <<>>
    ELSE IF i < Len(s) /\ s[i] \in C1 /\ s[i + 1] \in C2
         THEN <<s[i], " ", s[i + 1]>> \o SubPairFrom(C1, C2, s, i + 2)
         ELSE <<s[i]>> \o SubPairFrom(C1, C2, s, i + 1)

SubPair(C1, C2, s) == SubPairFrom(C1, C2, s, 1)

Rule1(s) == SubPair(Punct, NonSpace, s)
\* variant: only the word-then-parenthesis direction
Rule2OneWay(s) == SubPair(Word, Paren, s)
Rule2(s) == SubPair(Paren, Word, SubPair(Word, Paren, s))
\* variant: second class [A-Za-z] instead of [A-Z]
Rule3Wide(s) == SubPair(Lower, Lower \cup Upper, s)
Rule3(s) == SubPair(Lower, Upper, s)
Rule4(s) == SubPair(Period, Upper, s)

Rule(r, s) ==
    CASE r = 1 -> Rule1(s)
      [] r = 2 -> Rule2(s)
      [] r = 3 -> Rule3(s)
      [] r = 4 -> Rule4(s)

clean_response_text(s) == Rule4(Rule3(Rule2(Rule1(s))))

(***************************************************************************)
(* Calculation engine (exact rational arithmetic)                          *)
(***************************************************************************)
Fields == {"total_hoa", "insurance", "property_tax", "opex_total",
           "capex_total", "capex_rec", "estimated_rent", "market_value",
           "rental_collection_pct"}

OutputNames == {"net_revenue_ltm", "gross_yield_pct", "noi_ltm",
                "economic_noi_ltm", "all_in_noi_ltm", "noi_margin_ltm",
                "economic_noi_margin_ltm", "all_in_noi_margin_ltm",
                "noi_yield_ltm", "economic_noi_yield_ltm",
                "all_in_noi_yield_ltm"}

\* a number n/d; d = 0 marks a division by zero (ZeroDivisionError)
Rat(n, d) == [nan |-> FALSE, n |-> n, d |-> d]
NaN == [nan |-> TRUE, n |-> 0, d |-> 1]
Num(i) == Rat(i, 1)
RMul(a, b) == Rat(a.n * b.n, a.d * b.d)
RSub(a, b) == Rat(a.n * b.d - b.n * a.d, a.d * b.d)
RDiv(a, b) == Rat(a.n * b.d, a.d * b.n)
REq(a, b) == ~a.nan /\ ~b.nan /\ a.d # 0 /\ b.d # 0 /\ a.n * b.d = b.n * a.d
Truthy(a) == a.n # 0
Raised(a) == ~a.nan /\ a.d = 0

\* variant: the division without its zero test
RatioUnguarded(num, den) == RDiv(num, den)

\* `num / den if den else np.nan`
Ratio(num, den) == IF Truthy(den) THEN RDiv(num, den) ELSE NaN

\* lines 126-136, with v the nine local input values
CalcOutputs(v) ==
    LET total_hoa == Num(v.total_hoa)
        insurance == Num(v.insurance)
        property_tax == Num(v.property_tax)
        opex_total == Num(v.opex_total)
        capex_total == Num(v.capex_total)
        capex_rec == Num(v.capex_rec)
        estimated_rent == Num(v.estimated_rent)
        market_value == Num(v.market_value)
        rental_collection_pct == Num(v.rental_collection_pct)
        net_revenue_ltm ==
            RMul(estimated_rent, RDiv(rental_collection_pct, Num(100)))
        noi_ltm == RSub(net_revenue_ltm, opex_total)
        economic_noi_ltm ==
            RSub(RSub(net_revenue_ltm, opex_total), capex_total)
        all_in_noi_ltm ==
            RSub(RSub(RSub(net_revenue_ltm, opex_total), capex_total),
                 capex_rec)
    IN  [net_revenue_ltm |-> net_revenue_ltm,
         gross_yield_pct |->
             Ratio(RSub(RSub(RSub(net_revenue_ltm, total_hoa), insurance),
                        property_tax), market_value),
         noi_ltm |-> noi_ltm,
         economic_noi_ltm |-> economic_noi_ltm,
         all_in_noi_ltm |-> all_in_noi_ltm,
         noi_margin_ltm |-> Ratio(noi_ltm, net_revenue_ltm),
         economic_noi_margin_ltm |-> Ratio(economic_noi_ltm, net_revenue_ltm),
         all_in_noi_margin_ltm |-> Ratio(all_in_noi_ltm, net_revenue_ltm),
         noi_yield_ltm |-> Ratio(noi_ltm, market_value),
         economic_noi_yield_ltm |-> Ratio(economic_noi_ltm, market_value),
         all_in_noi_yield_ltm |-> Ratio(all_in_noi_ltm, market_value)]

NoOutputs == [k \in OutputNames |-> NaN]

(***************************************************************************)
(* Data and session                                                        *)
(***************************************************************************)
\* data['Property'].unique(); the selectbox starts on the first entry
property_list == <<"P1", "P2">>

\* first row of each property (selected_data); several fields agree
Data ==
    [P1 |-> [total_hoa |-> 1, insurance |-> 1, property_tax |-> 2,
             opex_total |-> 1, capex_total |-> 0, capex_rec |-> 1,
             estimated_rent |-> 2, market_value |-> 2,
             rental_collection_pct |-> 100],
     P2 |-> [total_hoa |-> 2, insurance |-> 1, property_tax |-> 2,
             opex_total |-> 0, capex_total |-> 0, capex_rec |-> 2,
             estimated_rent |-> 2, market_value |-> 0,
             rental_collection_pct |-> 50]]

NoProperty == "none"

\* a dict of the nine inputs, as its set of items; {} is the empty dict
AsDict(v) == {<<f, v[f]>> : f \in Fields}

\* texts are sequences of characters
QuickEvaluate == <<"E", "v", "a", "l", "?">>
QuickNOI == <<"(", "N", "O", "I", ")", "?">>
QuickYield == <<"Y", "i", "e", "l", "d", "?">>
FreeTexts == {<<"a", ".", "b">>}
FallbackText == <<"F", "a", "i", "l", "e", "d", ".">>
Replies == {<<"O", "k", ".">>, <<".", ".", "a", "(", "B", ")">>}
FailureStatuses == {404, 500}

NoTrigger == [widget |-> "none", value |-> <<>>]
NoWidget == [has |-> FALSE, dflt |-> 0, val |-> 0]

\* st.sidebar.number_input(label f, value=value): the stored value when a
\* widget of the same identity (label and parameters) has state, else value
number_input(f, value) ==
    IF w_num[f].has /\ w_num[f].dflt = value THEN w_num[f].val ELSE value

\* variant: widget state survives a pass that did not render the widget
KeepStale(w, rendered) == w

\* end of a pass: state of widgets not rendered in it is dropped
RemoveStale(w, rendered) ==
    [f \in Fields |-> IF f \in rendered THEN w[f] ELSE NoWidget]

\* lines 247-260
user_input ==
    CASE trigger.widget = "evaluate" -> QuickEvaluate
      [] trigger.widget = "noi" -> QuickNOI
      [] trigger.widget = "yield" -> QuickYield
      [] trigger.widget = "chat" -> trigger.value
      [] OTHER -> <<>>

InitSession ==
    /\ pc = "top"
    /\ ss_keys = {}
    /\ scroll_to_section = "None"
    /\ last_selected_property = NoProperty
    /\ inputs = {}
    /\ messages = <<>>
    /\ w_select = property_list[1]
    /\ w_num = [f \in Fields |-> NoWidget]
    /\ trigger = NoTrigger
    /\ cur = [f \in Fields |-> 0]
    /\ output_df = NoOutputs
    /\ shown = <<>>
    /\ lastEvent = "load"
    /\ passes = 1
    /\ nEvents = 0
    /\ posts = 0
    /\ outcome = "none"
    /\ reply = <<>>
    /\ pre_messages = <<>>
    /\ pre_cur = [f \in Fields |-> 0]
    /\ asked = <<>>

InitCleanIdle ==
    /\ text = <<>>
    /\ c_stage = 0
    /\ c_out = <<>>
    /\ iso_rule = 0
    /\ iso_n = 0
    /\ iso_once = <<>>
    /\ iso_twice = <<>>

Init == InitSession /\ InitCleanIdle

(***************************************************************************)
(* The script pass                                                         *)
(***************************************************************************)
\* st.rerun(): the pass ends, triggers are reset, widgets outside `rendered`
\* lose their state, and a new pass starts at the top
Rerun(w, rendered) ==
    /\ pc' = "top"
    /\ passes' = passes + 1
    /\ trigger' = NoTrigger
    /\ w_num' = RemoveStale(w, rendered)

\* session values as read after the `not in st.session_state` defaults
scroll0 ==
    IF "scroll_to_section" \in ss_keys THEN scroll_to_section ELSE "None"
last0 ==
    IF "last_selected_property" \in ss_keys THEN last_selected_property
    ELSE w_select
messages0 == IF "messages" \in ss_keys THEN messages ELSE <<>>

\* lines 46-72, selected_property != last_selected_property
PropertyChanged ==
    /\ pc = "top"
    /\ w_select # last0
    /\ messages' = <<>>
    /\ inputs' = {}
    /\ last_selected_property' = w_select
    /\ scroll_to_section' = "outputs"
    /\ ss_keys' = ss_keys \cup {"scroll_to_section", "last_selected_property",
                                "messages", "inputs"}
    /\ Rerun(w_num, {})
    /\ UNCHANGED <<w_select, cur, output_df, shown, lastEvent, nEvents, posts,
                   outcome, reply, pre_messages, pre_cur, asked, cleanVars>>

\* lines 46-72, no property change
PropertyUnchanged ==
    /\ pc = "top"
    /\ w_select = last0
    /\ last_selected_property' = last0
    /\ scroll_to_section' = scroll0
    /\ ss_keys' = ss_keys \cup {"scroll_to_section", "last_selected_property"}
    /\ pc' = "inputs"
    /\ UNCHANGED <<inputs, messages, w_select, w_num, trigger, cur, output_df,
                   shown, lastEvent, passes, nEvents, posts, outcome, reply,
                   pre_messages, pre_cur, asked, cleanVars>>

\* lines 74-85: the nine widgets seeded from selected_data
widget_values == [f \in Fields |-> number_input(f, Data[w_select][f])]
registered ==
    [f \in Fields |-> [has |-> TRUE, dflt |-> Data[w_select][f],
                       val |-> widget_values[f]]]
inputs0 == IF "inputs" \in ss_keys THEN inputs ELSE AsDict(widget_values)

\* variant: the transcript is not reset on an input change
InputsChangedKeepChat ==
    /\ pc = "inputs"
    /\ AsDict(widget_values) # inputs0
    /\ cur' = widget_values
    /\ messages' = messages0
    /\ inputs' = AsDict(widget_values)
    /\ scroll_to_section' = "outputs"
    /\ ss_keys' = ss_keys \cup {"inputs", "messages"}
    /\ Rerun(registered, Fields)
    /\ UNCHANGED <<last_selected_property, w_select, output_df, shown,
                   lastEvent, nEvents, posts, outcome, reply, pre_messages,
                   pre_cur, asked, cleanVars>>

\* lines 74-117, current_inputs != st.session_state.inputs
InputsChanged ==
    /\ pc = "inputs"
    /\ AsDict(widget_values) # inputs0
    /\ cur' = widget_values
    /\ messages' = <<>>
    /\ inputs' = AsDict(widget_values)
    /\ scroll_to_section' = "outputs"
    /\ ss_keys' = ss_keys \cup {"inputs", "messages"}
    /\ Rerun(registered, Fields)
    /\ UNCHANGED <<last_selected_property, w_select, output_df, shown,
                   lastEvent, nEvents, posts, outcome, reply, pre_messages,
                   pre_cur, asked, cleanVars>>

\* variant: the comparison misses the collection percentage
InputsUnchangedLoose ==
    /\ pc = "inputs"
    /\ \A f \in Fields \ {"rental_collection_pct"} :
           <<f, widget_values[f]>> \in inputs0
    /\ cur' = widget_values
    /\ w_num' = registered
    /\ inputs' = inputs0
    /\ ss_keys' = ss_keys \cup {"inputs"}
    /\ pc' = "outputs"
    /\ UNCHANGED <<scroll_to_section, last_selected_property, messages,
                   w_select, trigger, output_df, shown, lastEvent, passes,
                   nEvents, posts, outcome, reply, pre_messages, pre_cur,
                   asked, cleanVars>>

\* lines 74-117, inputs equal to the stored snapshot
InputsUnchanged ==
    /\ pc = "inputs"
    /\ AsDict(widget_values) = inputs0
    /\ cur' = widget_values
    /\ w_num' = registered
    /\ inputs' = inputs0
    /\ ss_keys' = ss_keys \cup {"inputs"}
    /\ pc' = "outputs"
    /\ UNCHANGED <<scroll_to_section, last_selected_property, messages,
                   w_select, trigger, output_df, shown, lastEvent, passes,
                   nEvents, posts, outcome, reply, pre_messages, pre_cur, asked,
                   cleanVars>>

\* lines 124-225: outputs computed from the local input values and rendered
RenderOutputs ==
    /\ pc = "outputs"
    /\ output_df' = CalcOutputs(cur)
    /\ pc' = "chat"
    /\ UNCHANGED <<ss_keys, scroll_to_section, last_selected_property, inputs,
                   messages, w_select, w_num, trigger, cur, shown, lastEvent,
                   passes, nEvents, posts, outcome, reply, pre_messages,
                   pre_cur, asked, cleanVars>>

\* lines 234-241: Clear Chat clicked
ChatClear ==
    /\ pc = "chat"
    /\ trigger.widget = "clear"
    /\ messages' = <<>>
    /\ scroll_to_section' = "chatbot"
    /\ ss_keys' = ss_keys \cup {"messages"}
    /\ Rerun(w_num, Fields)
    /\ UNCHANGED <<last_selected_property, inputs, w_select, cur, output_df,
                   shown, lastEvent, nEvents, posts, outcome, reply,
                   pre_messages, pre_cur, asked, cleanVars>>

\* lines 234-312: a question; transcript reset, user entry, request sent
ChatSubmit ==
    /\ pc = "chat"
    /\ trigger.widget # "clear"
    /\ user_input # <<>>
    /\ messages' = <<[role |-> "user", content |-> user_input]>>
    /\ ss_keys' = ss_keys \cup {"messages"}
    /\ posts' = posts + 1
    /\ asked' = user_input
    /\ pc' = "await"
    /\ UNCHANGED <<scroll_to_section, last_selected_property, inputs,
                   w_select, w_num, trigger, cur, output_df, shown, lastEvent,
                   passes, nEvents, outcome, reply, pre_messages, pre_cur,
                   cleanVars>>

\* lines 234-262: no click, no question
ChatNone ==
    /\ pc = "chat"
    /\ trigger.widget # "clear"
    /\ user_input = <<>>
    /\ messages' = messages0
    /\ ss_keys' = ss_keys \cup {"messages"}
    /\ pc' = "display"
    /\ UNCHANGED <<scroll_to_section, last_selected_property, inputs,
                   w_select, w_num, trigger, cur, output_df, shown, lastEvent,
                   passes, nEvents, posts, outcome, reply, pre_messages,
                   pre_cur, asked, cleanVars>>

\* variant: the completion is cleaned before it is stored
Response200Cleaned(r) ==
    /\ pc = "await"
    /\ messages' = Append(messages, [role |-> "assistant",
                                     content |-> clean_response_text(r)])
    /\ outcome' = "ok"
    /\ reply' = r
    /\ scroll_to_section' = "chatbot"
    /\ Rerun(w_num, Fields)
    /\ UNCHANGED <<ss_keys, last_selected_property, inputs, w_select, cur,
                   output_df, shown, lastEvent, nEvents, posts, pre_messages,
                   pre_cur, asked, cleanVars>>

\* lines 314-321: status 200 with a completion r
Response200(r) ==
    /\ pc = "await"
    /\ messages' = Append(messages, [role |-> "assistant", content |-> r])
    /\ outcome' = "ok"
    /\ reply' = r
    /\ scroll_to_section' = "chatbot"
    /\ Rerun(w_num, Fields)
    /\ UNCHANGED <<ss_keys, last_selected_property, inputs, w_select, cur,
                   output_df, shown, lastEvent, nEvents, posts, pre_messages,
                   pre_cur, asked, cleanVars>>

\* lines 314-321: any other status
ResponseFailure(status) ==
    /\ pc = "await"
    /\ status # 200
    /\ messages' = Append(messages,
                          [role |-> "assistant", content |-> FallbackText])
    /\ outcome' = "status"
    /\ scroll_to_section' = "chatbot"
    /\ Rerun(w_num, Fields)
    /\ UNCHANGED <<ss_keys, last_selected_property, inputs, w_select, cur,
                   output_df, shown, lastEvent, nEvents, posts, reply,
                   pre_messages, pre_cur, asked, cleanVars>>

\* lines 308-312: requests.post raises (connection failure); nothing catches
\* it, the pass ends there
PostRaises ==
    /\ pc = "await"
    /\ outcome' = "network"
    /\ pc' = "error"
    /\ trigger' = NoTrigger
    /\ UNCHANGED <<ss_keys, scroll_to_section, last_selected_property, inputs,
                   messages, w_select, w_num, cur, output_df, shown, lastEvent,
                   passes, nEvents, posts, reply, pre_messages, pre_cur, asked,
                   cleanVars>>

\* line 315: status 200 whose body has no choices[0].message.content; the
\* lookup raises, nothing catches it, the pass ends there
ResponseMalformed ==
    /\ pc = "await"
    /\ outcome' = "malformed"
    /\ pc' = "error"
    /\ trigger' = NoTrigger
    /\ UNCHANGED <<ss_keys, scroll_to_section, last_selected_property, inputs,
                   messages, w_select, w_num, cur, output_df, shown, lastEvent,
                   passes, nEvents, posts, reply, pre_messages, pre_cur, asked,
                   cleanVars>>

\* lines 324-351: the display loop and the scroll script; the pass ends
Display ==
    /\ pc = "display"
    /\ shown' = [i \in 1..Len(messages) |->
                    IF messages[i].role = "assistant"
                    THEN [role |-> "assistant",
                          content |-> clean_response_text(messages[i].content)]
                    ELSE messages[i]]
    /\ scroll_to_section' = "None"
    /\ trigger' = NoTrigger
    /\ pc' = "idle"
    /\ UNCHANGED <<ss_keys, last_selected_property, inputs, messages, w_select,
                   w_num, cur, output_df, lastEvent, passes, nEvents, posts,
                   outcome, reply, pre_messages, pre_cur, asked, cleanVars>>

(***************************************************************************)
(* User events (between passes)                                            *)
(***************************************************************************)
EditVals == 0..MaxEditVal

Event(kind) ==
    /\ pc \in {"idle", "error"}
    /\ nEvents < MaxEvents
    /\ nEvents' = nEvents + 1
    /\ lastEvent' = kind
    /\ pc' = "top"
    /\ passes' = 1
    /\ posts' = 0
    /\ outcome' = "none"
    /\ reply' = <<>>
    /\ shown' = <<>>
    /\ pre_messages' = messages
    /\ pre_cur' = cur
    /\ UNCHANGED <<ss_keys, scroll_to_section, last_selected_property, inputs,
                   messages, cur, output_df, asked, cleanVars>>

\* line 61: another entry of the selectbox
SelectProperty(p) ==
    /\ p # w_select
    /\ Event("select")
    /\ w_select' = p
    /\ UNCHANGED <<w_num, trigger>>

\* lines 77-85: a new value typed into one number_input
EditInput(f, v) ==
    /\ w_num[f].has
    /\ v # w_num[f].val
    /\ f = "rental_collection_pct" => (0 <= v /\ v <= 100)
    /\ Event("edit")
    /\ w_num' = [w_num EXCEPT ![f].val = v]
    /\ UNCHANGED <<w_select, trigger>>

\* line 238: Clear Chat
ClickClear ==
    /\ Event("clear")
    /\ trigger' = [widget |-> "clear", value |-> <<>>]
    /\ UNCHANGED <<w_select, w_num>>

\* line 180: the download button (a click re-executes the script)
ClickDownload ==
    /\ Event("download")
    /\ trigger' = [widget |-> "download", value |-> <<>>]
    /\ UNCHANGED <<w_select, w_num>>

\* lines 249-256: one of the three quick-question buttons
ClickQuick(b) ==
    /\ Event("question")
    /\ trigger' = [widget |-> b, value |-> <<>>]
    /\ UNCHANGED <<w_select, w_num>>

\* line 260: a non-empty text submitted in the chat input
SubmitChat(t) ==
    /\ t # <<>>
    /\ Event("question")
    /\ trigger' = [widget |-> "chat", value |-> t]
    /\ UNCHANGED <<w_select, w_num>>

Next ==
    \/ PropertyChanged
    \/ PropertyUnchanged
    \/ InputsChanged
    \/ InputsUnchanged
    \/ RenderOutputs
    \/ ChatClear
    \/ ChatSubmit
    \/ ChatNone
    \/ \E r \in Replies : Response200(r)
    \/ \E status \in FailureStatuses : ResponseFailure(status)
    \/ PostRaises
    \/ ResponseMalformed
    \/ Display
    \/ \E i \in 1..Len(property_list) : SelectProperty(property_list[i])
    \/ \E f \in Fields, v \in EditVals : EditInput(f, v)
    \/ ClickClear
    \/ ClickDownload
    \/ \E b \in {"evaluate", "noi", "yield"} : ClickQuick(b)
    \/ \E t \in FreeTexts : SubmitChat(t)

Spec == Init /\ [][Next]_vars

(***************************************************************************)
(* Calculation engine on enumerated inputs: a pass standing at line 124    *)
(* with arbitrary edited values                                            *)
(***************************************************************************)
CalcVals == (0 - 1)..MaxCalcVal
PctVals == {0, 50, 100}
CalcInputs ==
    {v \in [Fields -> CalcVals \cup PctVals] :
        /\ v.rental_collection_pct \in PctVals
        /\ \A f \in Fields \ {"rental_collection_pct"} : v[f] \in CalcVals}

InitCalc ==
    /\ cur \in CalcInputs
    /\ pc = "outputs"
    /\ ss_keys = {"scroll_to_section", "last_selected_property", "inputs",
                  "messages"}
    /\ scroll_to_section = "None"
    /\ last_selected_property = property_list[1]
    /\ inputs = AsDict(cur)
    /\ messages = <<>>
    /\ w_select = property_list[1]
    /\ w_num = [f \in Fields |-> [has |-> TRUE, dflt |-> Data[w_select][f],
                                   val |-> cur[f]]]
    /\ trigger = NoTrigger
    /\ output_df = NoOutputs
    /\ shown = <<>>
    /\ lastEvent = "edit"
    /\ passes = 2
    /\ nEvents = MaxEvents
    /\ posts = 0
    /\ outcome = "none"
    /\ reply = <<>>
    /\ pre_messages = <<>>
    /\ pre_cur = cur
    /\ asked = <<>>
    /\ InitCleanIdle

NextCalc == RenderOutputs

SpecCalc == InitCalc /\ [][NextCalc]_vars

(***************************************************************************)
(* Text cleanup on enumerated inputs                                       *)
(***************************************************************************)
Alphabet == {".", ",", "!", "?", "(", ")", "5", "a", "B", " "}
ExampleInput == <<"H", "i", ".", "T", "h", "e", "r", "e", "(", "5", ")",
                  "b", "i", "g", "B", "a", "d">>
CleanInputs ==
    UNION {[1..n -> Alphabet] : n \in 0..MaxLen} \cup {ExampleInput}

InitClean ==
    /\ InitSession
    /\ text \in CleanInputs
    /\ c_stage = 0
    /\ c_out = text
    /\ iso_rule = 0
    /\ iso_n = 0
    /\ iso_once = <<>>
    /\ iso_twice = <<>>

\* clean_response_text, one substitution rule at a time (lines 13-20)
CleanStep(r) ==
    /\ iso_rule = 0
    /\ c_stage = r - 1
    /\ c_out' = Rule(r, c_out)
    /\ c_stage' = r
    /\ UNCHANGED <<text, iso_rule, iso_n, iso_once, iso_twice, sessionVars>>

\* one rule alone, applied to the input
IsolatedOnce(r) ==
    /\ c_stage = 0
    /\ iso_rule = 0
    /\ iso_rule' = r
    /\ iso_n' = 1
    /\ iso_once' = Rule(r, text)
    /\ UNCHANGED <<text, c_stage, c_out, iso_twice, sessionVars>>

\* the same rule applied to its own output
IsolatedTwice ==
    /\ iso_n = 1
    /\ iso_n' = 2
    /\ iso_twice' = Rule(iso_rule, iso_once)
    /\ UNCHANGED <<text, c_stage, c_out, iso_rule, iso_once, sessionVars>>

NextClean ==
    \/ \E r \in 1..4 : CleanStep(r)
    \/ \E r \in 1..4 : IsolatedOnce(r)
    \/ IsolatedTwice

SpecClean == InitClean /\ [][NextClean]_vars

(***************************************************************************)
(* Properties                                                              *)
(***************************************************************************)
\* positions of a pass at or after the rendering of the outputs
AfterInputs == {"outputs", "chat", "await", "display", "idle", "error"}

\* C1: after an input edit, when the pass reaches the rendering of the
\* outputs (and from then on) the transcript is empty and the stored
\* snapshot equals the new widget values.
C1_EditClearsTranscript ==
    (lastEvent = "edit" /\ pc \in AfterInputs) =>
        /\ messages = <<>>
        /\ inputs = AsDict(cur)
        /\ \A f \in Fields : w_num[f].has /\ cur[f] = w_num[f].val

C1_Witness ==
    /\ lastEvent = "edit"
    /\ pc = "outputs"
    /\ pre_messages # <<>>
    /\ cur # pre_cur

C3_LatestPairOnly ==
    pc = "idle" =>
        \/ shown = <<>>
        \/ /\ Len(shown) = 2
           /\ shown[1] = [role |-> "user", content |-> asked]
           /\ shown[2].role = "assistant"

\* the ratio o of num over den as specified: undefined exactly when den is
\* zero, otherwise the quotient
RatioAsSpecified(o, num, den) ==
    IF den.n = 0 THEN o = NaN
    ELSE ~o.nan /\ o.d # 0 /\ REq(RMul(o, den), num)

\* C4: the eleven outputs equal the specified formulas; a ratio is the
\* undefined value exactly when its denominator is zero, nothing is raised,
\* and the non-ratio outputs are always defined.
C4_OutputsMatchFormulas ==
    pc = "chat" =>
        LET o == output_df
            market_value == Num(cur.market_value)
            gross == RSub(o.net_revenue_ltm,
                          Num(cur.total_hoa + cur.insurance
                              + cur.property_tax))
        IN  /\ \A k \in OutputNames : ~Raised(o[k])
            /\ REq(o.net_revenue_ltm,
                   Rat(cur.estimated_rent * cur.rental_collection_pct, 100))
            /\ REq(o.noi_ltm, RSub(o.net_revenue_ltm, Num(cur.opex_total)))
            /\ REq(o.economic_noi_ltm,
                   RSub(o.noi_ltm, Num(cur.capex_total)))
            /\ REq(o.all_in_noi_ltm,
                   RSub(o.economic_noi_ltm, Num(cur.capex_rec)))
            /\ RatioAsSpecified(o.gross_yield_pct, gross, market_value)
            /\ RatioAsSpecified(o.noi_margin_ltm, o.noi_ltm,
                                o.net_revenue_ltm)
            /\ RatioAsSpecified(o.economic_noi_margin_ltm, o.economic_noi_ltm,
                                o.net_revenue_ltm)
            /\ RatioAsSpecified(o.all_in_noi_margin_ltm, o.all_in_noi_ltm,
                                o.net_revenue_ltm)
            /\ RatioAsSpecified(o.noi_yield_ltm, o.noi_ltm, market_value)
            /\ RatioAsSpecified(o.economic_noi_yield_ltm, o.economic_noi_ltm,
                                market_value)
            /\ RatioAsSpecified(o.all_in_noi_yield_ltm, o.all_in_noi_ltm,
                                market_value)

C4_Witness ==
    /\ pc = "chat"
    /\ cur.market_value = 0
    /\ cur.estimated_rent * cur.rental_collection_pct # 0
    /\ output_df.noi_yield_ltm = NaN
    /\ ~output_df.noi_margin_ltm.nan

\* the nine values held by a stored snapshot
FromDict(d) == [f \in Fields |-> CHOOSE x \in {p[2] : p \in d} : <<f, x>> \in d]

\* C5: in a pass that reaches the outputs, the local values fed to the
\* formulas are the stored snapshot, and the rendered Output Record is the
\* calculation applied to the stored snapshot alone.
C5_OutputsFromStoredInputs ==
    pc \in AfterInputs =>
        /\ inputs = AsDict(cur)
        /\ pc # "outputs" => output_df = CalcOutputs(FromDict(inputs))

C5_Witness ==
    /\ pc = "chat"
    /\ lastEvent = "edit"
    /\ cur # pre_cur
    /\ messages = <<>>
    /\ pre_messages # <<>>
    /\ output_df = CalcOutputs(FromDict(inputs))
    /\ output_df # CalcOutputs(pre_cur)

\* C6 (as claimed): one request per question, and whenever the request did
\* not succeed with status 200 (status or network failure alike) the
\* assistant entry is the fixed fallback message; the fallback is stored
\* only then.
C6_FallbackOnAnyFailure ==
    /\ posts <= 1
    /\ outcome \in {"status", "network"} =>
           /\ pc # "error"
           /\ messages = <<[role |-> "user", content |-> asked],
                           [role |-> "assistant", content |-> FallbackText]>>
    /\ outcome = "ok" =>
           /\ Len(messages) = 2
           /\ messages[2].content # FallbackText

\* C7 (as claimed): after a successful question the stored assistant entry
\* is the cleaned reply.
C7_StoredCleaned ==
    outcome = "ok" =>
        messages = <<[role |-> "user", content |-> asked],
                     [role |-> "assistant",
                      content |-> clean_response_text(reply)]>>

\* C7 (amended): after a successful question the stored assistant entry is
\* the raw reply; the display loop shows the reply cleaned exactly once and
\* the user entry unchanged.
C7_CleanedAtDisplay ==
    outcome = "ok" =>
        /\ messages = <<[role |-> "user", content |-> asked],
                        [role |-> "assistant", content |-> reply]>>
        /\ pc = "idle" =>
               shown = <<[role |-> "user", content |-> asked],
                         [role |-> "assistant",
                          content |-> clean_response_text(reply)]>>

C7_Witness ==
    /\ outcome = "ok"
    /\ pc = "idle"
    /\ clean_response_text(reply) # reply
    /\ clean_response_text(clean_response_text(reply))
           # clean_response_text(reply)
    /\ clean_response_text(asked) # asked
    /\ Len(shown) = 2

ClaimedOutput == <<"H", "i", ".", " ", "T", "h", "e", "r", "e", " ", "(", "5",
                   ")", " ", "b", "i", "g", " ", "B", "a", "d">>
ActualOutput == <<"H", "i", ".", " ", "T", "h", "e", "r", "e", " ", "(", " ",
                  "5", " ", ")", " ", "b", "i", "g", " ", "B", "a", "d">>

\* C8 (as claimed): the four rules in order map "Hi.There(5)bigBad" to
\* "Hi. There (5) big Bad".
C8_ExampleAsClaimed ==
    (text = ExampleInput /\ c_stage = 4) => c_out = ClaimedOutput

\* C8 (amended): the four rules in order map "Hi.There(5)bigBad" to
\* "Hi. There ( 5 ) big Bad": a space is inserted on both sides of each
\* parenthesis that touches a word character.
C8_Example ==
    (text = ExampleInput /\ c_stage = 4) => c_out = ActualOutput

C8_Witness == text = ExampleInput /\ c_stage = 4 /\ c_out # text

NoAdjacentPunct(s) ==
    \A i \in 1..(Len(s) - 1) : ~(s[i] \in Punct /\ s[i + 1] \in Punct)

C10_RerunsConverge ==
    /\ passes <= (IF lastEvent = "select" THEN 3 ELSE 2)
    /\ pc # "error"
    /\ pc = "idle" =>
           /\ last_selected_property = w_select
           /\ inputs = AsDict(cur)

====
